---- MODULE Spec2Model ----
(***************************************************************************)
(* Verdict Resolver of the claim-verification pipeline                     *)
(* (agents/reasoning_agent.py): the resumable main loop over evidence      *)
(* files, the bounded retry loop around the reasoning backend, and the     *)
(* per-claim verdict files.                                                *)
(*                                                                         *)
(* Python strings whose content the code inspects (substring tests,        *)
(* lower-casing) are sequences of one-character strings.  Confidence       *)
(* values are hundredths (0.9 is 90).                                      *)
(***************************************************************************)
EXTENDS Integers, Sequences, FiniteSets, TLC

(* ----------------------------- bounds ---------------------------------- *)
\* number of times the stage is started (first run plus restarts)
MaxRuns == 2

\* claim ids that have an evidence file evidence/{claim_id}.json
ClaimIds == {"1", "2"}

(* ------------------------ program constants ---------------------------- *)
MAX_RETRIES == 5

(* ------------------------------ strings -------------------------------- *)
\* line 210 with another wording
MSG_MAX_RETRIES_Reworded == <<"M","a","x"," ","a","t","t","e","m","p","t","s"," ","e","x","c","e","e","d","e","d",":"," ">>
\* line 210
MSG_MAX_RETRIES == <<"M","a","x"," ","r","e","t","r","i","e","s"," ","e","x","c","e","e","d","e","d",":"," ">>
MSG_PARSE == <<"F","a","i","l","e","d"," ","t","o"," ","p","a","r","s","e"," ","m","o","d","e","l"," ","r","e","s","p","o","n","s","e",":"," ">>
MSG_API == <<"A","P","I"," ","e","r","r","o","r",":"," ">>
MSG_UNEXPECTED == <<"U","n","e","x","p","e","c","t","e","d"," ","e","r","r","o","r",":"," ">>

s_error == <<"e","r","r","o","r">>
s_retries == <<"r","e","t","r","i","e","s">>
s_parse == <<"p","a","r","s","e">>
s_errors == <<"e","r","r","o","r","s">>
s_supported == <<"s","u","p","p","o","r","t","e","d">>
s_contradicted == <<"c","o","n","t","r","a","d","i","c","t","e","d">>
s_undetermined == <<"u","n","d","e","t","e","r","m","i","n","e","d">>
s_maybe == <<"m","a","y","b","e">>
s_high == <<"h","i","g","h">>
s_Test == <<"T","e","s","t">>
s_NoErrorHere == <<"N","o"," ","E","r","r","o","r"," ","h","e","r","e">>

\* str(e) of the exceptions the backend call and the parsing can raise
e_RateLimit == <<"r","a","t","e"," ","l","i","m","i","t","e","d">>
e_Connection == <<"C","o","n","n","e","c","t","i","o","n"," ","e","r","r","o","r",".">>
e_Status == <<"s","t","a","t","u","s">>
e_Boom == <<"B","o","o","m">>
e_Expecting == <<"E","x","p","e","c","t","i","n","g"," ","v","a","l","u","e">>
e_ItemAssign == <<"n","o"," ","i","t","e","m"," ","a","s","s","i","g","n","m","e","n","t">>
e_IndexRange == <<"l","i","s","t"," ","i","n","d","e","x"," ","o","u","t"," ","o","f"," ","r","a","n","g","e">>

UpperCase == <<"A","B","C","D","E","F","G","H","I","J","K","L","M",
               "N","O","P","Q","R","S","T","U","V","W","X","Y","Z">>
LowerCase == <<"a","b","c","d","e","f","g","h","i","j","k","l","m",
               "n","o","p","q","r","s","t","u","v","w","x","y","z">>

\* the lower-case letter of every upper-case letter
LowerOf ==
    [c \in {UpperCase[k] : k \in 1..26} |->
        LowerCase[CHOOSE k \in 1..26 : UpperCase[k] = c]]

\* str.lower() on one character
LowerChar(c) == IF c \in DOMAIN LowerOf THEN LowerOf[c] ELSE c

\* str.lower()
Lower(s) == [k \in 1..Len(s) |-> LowerChar(s[k])]

\* Python's  sub in s  for strings
Contains(sub, s) ==
    \E k \in 0..(Len(s) - Len(sub)) :
        \A j \in 1..Len(sub) : s[k + j] = sub[j]

(* ---------------------------- JSON values ------------------------------ *)
\* a JSON value as json.loads returns it: t is the Python type, s the
\* content of a str, n the value of a number (hundredths)
Absent == [t |-> "absent", s |-> <<>>, n |-> 0]
Str(s) == [t |-> "str", s |-> s, n |-> 0]
Num(n) == [t |-> "num", s |-> <<>>, n |-> n]
EmptyList == [t |-> "list", s |-> <<>>, n |-> 0]
Null == [t |-> "null", s |-> <<>>, n |-> 0]

\* claim_id of the evidence record evidence/{c}.json
ClaimIdOf(c) == Str(<<c>>)

VerdictKeys == {"claim_id", "verdict", "confidence", "supporting_spans",
                "contradicting_spans", "reasoning"}

\* a dict without any of the verdict keys
EmptyDict == [k \in VerdictKeys |-> Absent]

\* the parsed response: a dict (its keys in d) or another JSON value (in v)
Dict(d) == [isdict |-> TRUE, d |-> d, v |-> Absent]
NonDict(v) == [isdict |-> FALSE, d |-> EmptyDict, v |-> v]

(* --------------------------- backend replies --------------------------- *)
NonEmptyList == [t |-> "list", s |-> <<>>, n |-> 1]

\* a verdict object as the prompt asks for it
GoodDict ==
    [claim_id |-> Str(<<"1">>), verdict |-> Str(s_supported),
     confidence |-> Num(90), supporting_spans |-> NonEmptyList,
     contradicting_spans |-> EmptyList, reasoning |-> Str(s_Test)]

\* JSON objects the backend may send: the good one and its deviations
BackendDicts ==
    {GoodDict}
    \cup {[GoodDict EXCEPT !.verdict = v] :
            v \in {Str(s_contradicted), Str(s_undetermined), Str(s_maybe),
                   Absent, EmptyList}}
    \cup {[GoodDict EXCEPT !.confidence = v] :
            v \in {Absent, Num(150), Num(0 - 10), Str(s_high), Null}}
    \cup {[GoodDict EXCEPT !.reasoning = v] :
            v \in {Absent, Num(7), Null, Str(s_NoErrorHere)}}
    \cup {[GoodDict EXCEPT !.claim_id = v] : v \in {Absent, Str(<<"9">>)}}
    \cup {[GoodDict EXCEPT !.supporting_spans = Absent,
                           !.contradicting_spans = Absent]}
    \cup {[GoodDict EXCEPT !.verdict = Absent,
                           !.reasoning = Str(s_NoErrorHere)]}

\* JSON documents the backend may send
BackendJson ==
    {Dict(d) : d \in BackendDicts}
    \cup {NonDict(v) : v \in {EmptyList, Num(5), Null}}

\* one line of the reply text: a ``` fence line, a ```json fence line, a JSON
\* document, or prose
FenceLine == [k |-> "fence", p |-> NonDict(Absent)]
FenceJsonLine == [k |-> "fencejson", p |-> NonDict(Absent)]
JunkLine == [k |-> "junk", p |-> NonDict(Absent)]
JsonLine(p) == [k |-> "json", p |-> p]

\* reply texts: plain JSON, fenced JSON, prose, fenced prose, empty text
BackendTexts ==
    {<<JsonLine(p)>> : p \in BackendJson}
    \cup {<<FenceJsonLine, JsonLine(p), FenceLine>> :
            p \in {Dict(GoodDict), Dict([GoodDict EXCEPT !.verdict = Absent]),
                   NonDict(EmptyList)}}
    \cup {<<FenceLine, JsonLine(Dict(GoodDict)), FenceLine>>,
          <<JunkLine>>, <<FenceLine, JunkLine, FenceLine>>, <<>>,
          <<JsonLine(Dict(GoodDict)), JunkLine>>,
          <<JunkLine, FenceJsonLine, JsonLine(Dict(GoodDict)), FenceLine>>}

\* what client.messages.create does: returns a response (content is the list
\* of content blocks, here their texts) or raises
Response(content) ==
    [o |-> "response", content |-> content, hasStatus |-> FALSE,
     status |-> 0, msg |-> <<>>]
Raises(cls, hasStatus, status, msg) ==
    [o |-> cls, content |-> <<>>, hasStatus |-> hasStatus,
     status |-> status, msg |-> msg]
NoOutcome == Raises("none", FALSE, 0, <<>>)

BackendOutcomes ==
    {Response(<<t>>) : t \in BackendTexts}
    \cup {Response(<<>>)}
    \cup {Raises("RateLimitError", TRUE, 429, e_RateLimit),
          Raises("APIConnectionError", FALSE, 0, e_Connection),
          Raises("APIError", FALSE, 0, e_Status),
          Raises("Exception", FALSE, 0, e_Boom)}
    \cup {Raises("APIError", TRUE, st, e_Status) :
            st \in {400, 499, 500, 599, 600}}

(* ------------------------- call_claude_with_retry ---------------------- *)
\* str.startswith("```") on a line
IsFence(l) == l.k \in {"fence", "fencejson"}

\* lines 161-164 left out: the text goes to json.loads as it came
StripFences_Keep(text) == text

\* lines 161-164: drop every line that starts with ``` when the text does
StripFences(text) ==
    IF text # <<>> /\ IsFence(text[1])
    THEN SelectSeq(text, LAMBDA l : ~IsFence(l))
    ELSE text

\* json.loads: one JSON document and nothing else parses, anything else
\* raises JSONDecodeError
json_loads(text) ==
    IF Len(text) = 1 /\ text[1].k = "json"
    THEN [ok |-> TRUE, val |-> text[1].p]
    ELSE [ok |-> FALSE, val |-> NonDict(Absent)]

create_error_verdict(claim_id, error_message) ==
    [claim_id |-> claim_id, verdict |-> Str(s_undetermined),
     confidence |-> Num(0), supporting_spans |-> EmptyList,
     contradicting_spans |-> EmptyList, reasoning |-> Str(error_message)]

\* lines 168-169 left out: the claim_id of the reply is kept
SetClaimId_Trust(d, claim_id) == d

\* lines 168-169: verdict["claim_id"] = claim_id
SetClaimId(d, claim_id) == [d EXCEPT !.claim_id = claim_id]

\* lines 176-194 with the rate limit clause only
IsRetryable_RateLimitOnly(out) == out.o = "RateLimitError"

\* lines 188-194 without the status test: every APIError is retried
IsRetryable_AnyApiError(out) ==
    out.o \in {"RateLimitError", "APIConnectionError", "APIError"}

\* the except clauses that sleep and go round the loop again (lines 176-194)
IsRetryable(out) ==
    \/ out.o = "RateLimitError"
    \/ out.o = "APIConnectionError"
    \/ out.o = "APIError" /\ out.hasStatus
         /\ 500 <= out.status /\ out.status < 600

Returned(v) == [ret |-> TRUE, verdict |-> v]
Retry == [ret |-> FALSE, verdict |-> EmptyDict]

\* the except clauses that return an error verdict (lines 195-206)
HandleFailure(claim_id, out) ==
    IF out.o = "APIError"
    THEN create_error_verdict(claim_id, MSG_API \o out.msg)
    ELSE create_error_verdict(claim_id, MSG_UNEXPECTED \o out.msg)

\* lines 157-174 with  except Exception  ahead of  except JSONDecodeError
HandleResponse_GenericHandler(claim_id, out) ==
    IF out.content = <<>>
    THEN create_error_verdict(claim_id, MSG_UNEXPECTED \o e_IndexRange)
    ELSE LET parsed == json_loads(StripFences(out.content[1])) IN
         IF ~parsed.ok
         THEN create_error_verdict(claim_id, MSG_UNEXPECTED \o e_Expecting)
         ELSE IF ~parsed.val.isdict
         THEN create_error_verdict(claim_id, MSG_UNEXPECTED \o e_ItemAssign)
         ELSE SetClaimId(parsed.val.d, claim_id)

\* lines 157-174 and the handlers of what they raise
HandleResponse(claim_id, out) ==
    IF out.content = <<>>
    THEN create_error_verdict(claim_id, MSG_UNEXPECTED \o e_IndexRange)
    ELSE LET parsed == json_loads(StripFences(out.content[1])) IN
         IF ~parsed.ok
         THEN create_error_verdict(claim_id, MSG_PARSE \o e_Expecting)
         ELSE IF ~parsed.val.isdict
         THEN create_error_verdict(claim_id, MSG_UNEXPECTED \o e_ItemAssign)
         ELSE SetClaimId(parsed.val.d, claim_id)

\* one iteration of the attempt loop (lines 149-206)
HandleAttempt(claim_id, out) ==
    IF out.o = "response" THEN Returned(HandleResponse(claim_id, out))
    ELSE IF IsRetryable(out) THEN Retry
    ELSE Returned(HandleFailure(claim_id, out))

(* ------------------ call_ollama (reasoning_agent_local.py) ------------- *)
MSG_OLLAMA_STATUS == <<"O","l","l","a","m","a"," ","e","r","r","o","r",":"," ">>
MSG_JSON_PARSE == <<"J","S","O","N"," ","p","a","r","s","e"," ","e","r","r","o","r",":"," ">>
MSG_NOT_RUNNING == <<"O","l","l","a","m","a"," ","n","o","t"," ","r","u","n","n","i","n","g","."," ","S","t","a","r","t"," ","w","i","t","h",":"," ","o","l","l","a","m","a"," ","s","e","r","v","e">>
MSG_TIMEOUT == <<"O","l","l","a","m","a"," ","t","i","m","e","o","u","t"," ","-"," ","m","o","d","e","l"," ","m","a","y"," ","b","e"," ","t","o","o"," ","s","l","o","w">>
MSG_ERROR == <<"E","r","r","o","r",":"," ">>
s_LocalInference == <<"L","o","c","a","l"," ","m","o","d","e","l"," ","i","n","f","e","r","e","n","c","e">>

\* str(response.status_code)
StatusStr(st) ==
    CASE st = 404 -> <<"4","0","4">>
      [] st = 500 -> <<"5","0","0">>
      [] st = 503 -> <<"5","0","3">>
      [] OTHER -> <<"2","0","0">>

\* what requests.post does: returns an HTTP response (content holds the
\* "response" text of the body when the body has one) or raises
Http(status, content) ==
    [o |-> "http", content |-> content, hasStatus |-> TRUE,
     status |-> status, msg |-> <<>>]

OllamaOutcomes ==
    {Http(200, <<t>>) : t \in BackendTexts}
    \cup {Http(200, <<>>), Http(404, <<>>), Http(500, <<>>), Http(503, <<>>)}
    \cup {Raises("ConnectionError", FALSE, 0, e_Connection),
          Raises("Timeout", FALSE, 0, e_Connection),
          Raises("Exception", FALSE, 0, e_Boom)}

\* "```json" in text: index of the first ```json line, Len(text) + 1 if none
FirstFenceJson(text) ==
    IF \E k \in 1..Len(text) : text[k].k = "fencejson"
    THEN CHOOSE k \in 1..Len(text) :
             /\ text[k].k = "fencejson"
             /\ \A j \in 1..(k - 1) : text[j].k # "fencejson"
    ELSE Len(text) + 1

\* "```" in text: index of the first fence line, Len(text) + 1 if none
FirstFence(text) ==
    IF \E k \in 1..Len(text) : IsFence(text[k])
    THEN CHOOSE k \in 1..Len(text) :
             /\ IsFence(text[k])
             /\ \A j \in 1..(k - 1) : ~IsFence(text[j])
    ELSE Len(text) + 1

\* lines 129-132: what stands between the first ```json (else the first ```)
\* and the next ```
ExtractFenced(text) ==
    LET a == IF FirstFenceJson(text) <= Len(text)
             THEN FirstFenceJson(text)
             ELSE FirstFence(text)
        rest == SubSeq(text, a + 1, Len(text))
    IN  IF a <= Len(text)
        THEN SubSeq(rest, 1, FirstFence(rest) - 1)
        ELSE text

\* lines 140-148: the keys the reply left out
Backfill(d) ==
    [d EXCEPT
       !.supporting_spans = IF @ = Absent THEN EmptyList ELSE @,
       !.contradicting_spans = IF @ = Absent THEN EmptyList ELSE @,
       !.confidence = IF @ = Absent THEN Num(50) ELSE @,
       !.reasoning = IF @ = Absent THEN Str(s_LocalInference) ELSE @]

\* lines 99-167
call_ollama(claim_id, out) ==
    IF out.o = "ConnectionError"
    THEN create_error_verdict(claim_id, MSG_NOT_RUNNING)
    ELSE IF out.o = "Timeout"
    THEN create_error_verdict(claim_id, MSG_TIMEOUT)
    ELSE IF out.o # "http"
    THEN create_error_verdict(claim_id, MSG_ERROR \o out.msg)
    ELSE IF out.status # 200
    THEN create_error_verdict(claim_id,
                              MSG_OLLAMA_STATUS \o StatusStr(out.status))
    ELSE LET response_text == IF out.content = <<>> THEN <<>>
                              ELSE out.content[1]
             parsed == json_loads(ExtractFenced(response_text)) IN
         IF ~parsed.ok
         THEN create_error_verdict(claim_id, MSG_JSON_PARSE \o e_Expecting)
         ELSE IF ~parsed.val.isdict
         THEN create_error_verdict(claim_id, MSG_ERROR \o e_ItemAssign)
         ELSE Backfill(SetClaimId(parsed.val.d, claim_id))

(* ------------------------------- state --------------------------------- *)
VARIABLES
    lacks,             \* required fields the file evidence/{c}.json lacks
    backend,           \* the stage run_all starts: "hosted" or "local"
    apiKey,            \* ANTHROPIC_API_KEY is set
    evidence,          \* claim ids with a file in evidence/
    files,             \* verdicts/{claim_id}.json for every claim id
    pc,                \* where the stage is
    runs,              \* number of times the stage was started
    processed,         \* main: stems of the verdict files found at start
    remaining,         \* main: evidence files still to process, in glob order
    i,                 \* main: loop index
    claim_data,        \* main: the evidence record being processed
    attempt,           \* call_claude_with_retry: loop variable
    last_error,        \* call_claude_with_retry: str(last_error)
    verdict,           \* main: the verdict returned for claim_data
    stats,             \* main: statistics
    ncalls,            \* backend calls dispatched for claim_data
    lastOutcome,       \* outcome of the last backend call for claim_data
    called,            \* claims sent to the backend in this run
    completed,         \* claims the backend answered in this run
    completedEarlier,  \* claims the backend answered in an earlier run
    wrote,             \* claims whose verdict file this run created
    persistedEarlier   \* claims whose verdict file an earlier run created

\* chunk_text (ingestion_agent.py)
VARIABLES
    tokens,            \* encoding.encode(text): the tokens, as their texts
    chunk_size,        \* parameter
    overlap,           \* parameter
    token_idx,         \* local
    chunk_idx,         \* local
    chunks,            \* local, the list that is returned
    tstarts,           \* token_idx at which every chunk of chunks began
    cpc                \* where chunk_text is

\* retrieve_evidence (retriever_agent.py)
VARIABLES
    metadata,          \* parameter: one entry per vector of the index
    sims,              \* inner product of the query with every vector
    book_name,         \* claim["book_name"]
    hits,              \* index.search: the (score, idx) pairs, best first
    results,           \* local, then the list that is returned
    rpc                \* where retrieve_evidence is

\* main of retriever_agent.py
VARIABLES
    claimsFile,        \* claims/claims.jsonl exists
    nclaims,           \* number of claims in it
    faissIndex,        \* index/faiss.index: its vector count, NoFile if absent
    metaPkl,           \* index/meta.pkl: its length, NoFile if absent
    claimNo,           \* main: loop index
    evidenceWritten,   \* evidence bundles written by this run
    spc                \* where main is

retrieverMainVars == <<claimsFile, nclaims, faissIndex, metaPkl, claimNo,
                       evidenceWritten, spc>>
\* main of results_aggregator.py
VARIABLES
    verdict_files,     \* the files of verdicts/ in the order glob lists them
    claimStore,        \* claim ids with a record in claims/claims.jsonl
    aggResults,        \* main: results
    report,            \* the rows of output/results.csv
    reportWritten,     \* output/results.csv was written by this run
    altReport,         \* the rows a run gives that lists the files otherwise
    apc                \* where main is

aggVars == <<verdict_files, claimStore, aggResults, report, reportWritten,
             altReport, apc>>

\* main of run_all.py
VARIABLES
    startFrom,         \* args.start_from, <<>> when the option is not given
    skipReasoning,     \* args.skip_reasoning
    useLocal,          \* args.local
    stages,            \* STAGES after lines 76-81
    stageNo,           \* the stages of STAGES the loop has gone past
    started,           \* the stages run_stage was called for, with outcomes
    exitStatus,        \* exit status of run_all, NoExit while it runs
    complete,          \* PIPELINE COMPLETE was printed
    opc                \* where main is

orchVars == <<startFrom, skipReasoning, useLocal, stages, stageNo, started,
              exitStatus, complete, opc>>

\* upload_file of flask_api/upload.py
VARIABLES
    request,           \* the upload request
    artifacts,         \* the pipeline artifacts that exist
    artifactsBefore,   \* the ones that existed when the request came in
    historySaved,      \* the request copied the results to history/
    response,          \* status of the response, NoResponse before it
    upc                \* where upload_file is

uploadVars == <<request, artifacts, artifactsBefore, historySaved, response,
                upc>>

\* the components declared after the aggregator
laterVars == <<orchVars, uploadVars>>

\* the components declared after the retriever
restVars == <<retrieverMainVars, aggVars, laterVars>>

chunkVars == <<tokens, chunk_size, overlap, token_idx, chunk_idx, chunks,
               tstarts, cpc>>
retrieverVars == <<metadata, sims, book_name, hits, results, rpc>>
resolverVars ==
    <<lacks, backend, apiKey, evidence, files, pc, runs, processed, remaining,
      i, claim_data, attempt, last_error, verdict, stats, ncalls,
      lastOutcome, called, completed, completedEarlier, wrote,
      persistedEarlier>>
\* what the resolver stage does not touch
aside == <<chunkVars, retrieverVars, restVars>>

vars == <<resolverVars, chunkVars, retrieverVars, restVars>>

NoFile == 0 - 1

\* main of retriever_agent.py is not running
RetrieverMainIdle ==
    /\ claimsFile = FALSE
    /\ nclaims = 0
    /\ faissIndex = NoFile
    /\ metaPkl = NoFile
    /\ claimNo = 0
    /\ evidenceWritten = 0
    /\ spc = "idle"

\* main of results_aggregator.py is not running
AggIdle ==
    /\ verdict_files = <<>>
    /\ claimStore = {}
    /\ aggResults = <<>>
    /\ report = <<>>
    /\ reportWritten = FALSE
    /\ altReport = <<>>
    /\ apc = "idle"

NoExit == 0 - 1

\* main of run_all.py is not running
OrchIdle ==
    /\ startFrom = <<>>
    /\ skipReasoning = FALSE
    /\ useLocal = FALSE
    /\ stages = <<>>
    /\ stageNo = 0
    /\ started = <<>>
    /\ exitStatus = NoExit
    /\ complete = FALSE
    /\ opc = "idle"

NoRequest ==
    [hasFile |-> FALSE, filename |-> <<>>, tooLarge |-> FALSE,
     extraction |-> "text"]
NoResponse == 0

\* upload_file is not running
UploadIdle ==
    /\ request = NoRequest
    /\ artifacts = {}
    /\ artifactsBefore = {}
    /\ historySaved = FALSE
    /\ response = NoResponse
    /\ upc = "idle"

\* none of the components declared after the aggregator is running
LaterIdle ==
    /\ OrchIdle
    /\ UploadIdle

\* none of the components declared after the retriever is running
RestIdle ==
    /\ RetrieverMainIdle
    /\ AggIdle
    /\ LaterIdle

\* chunk_text is not running
ChunkIdle ==
    /\ tokens = <<>>
    /\ chunk_size = 1
    /\ overlap = 0
    /\ token_idx = 0
    /\ chunk_idx = 0
    /\ chunks = <<>>
    /\ tstarts = <<>>
    /\ cpc = "idle"

\* retrieve_evidence is not running
RetrieverIdle ==
    /\ metadata = <<>>
    /\ sims = <<>>
    /\ book_name = <<>>
    /\ hits = <<>>
    /\ results = <<>>
    /\ rpc = "idle"

FileNone == [st |-> "none", d |-> EmptyDict]
FilePartial == [st |-> "partial", d |-> EmptyDict]
FileFull(d) == [st |-> "full", d |-> d]

NoClaim == [claim_id |-> Absent]
\* the evidence bundle the retriever wrote to evidence/{c}.json
EvidenceRecord(c) == [claim_id |-> ClaimIdOf(c)]
\* verdicts/{claim_data['claim_id']}.json
OutputFile(cd) == cd.claim_id.s[1]

\* utils.py lines 157 and 170: the fields validate_evidence_data requires of
\* an evidence record and of each item of its evidence list
RequiredEvidenceFields ==
    {"claim_id", "book_name", "character", "claim_text", "evidence",
     "item.chunk_idx", "item.book", "item.text", "item.score"}

\* the keys build_user_prompt subscripts: reasoning_agent.py lines 60-71,
\* reasoning_agent_local.py lines 56-67
PromptFields(be) ==
    IF be = "hosted"
    THEN {"evidence", "claim_id", "claim_text", "item.text", "item.book",
          "item.chunk_idx"}
    ELSE {"evidence", "claim_id", "claim_text", "item.text", "item.book"}

\* build_user_prompt raises KeyError on a record that lacks the fields lk
PromptRaises(be, lk) == lk \cap PromptFields(be) # {}

s_None == <<"N","o","n","e">>

\* reasoning_agent.py line 266
HostedStats ==
    (Str(s_supported) :> 0) @@ (Str(s_contradicted) :> 0)
      @@ (Str(s_undetermined) :> 0) @@ (Str(s_errors) :> 0)

\* reasoning_agent_local.py line 253
LocalStats ==
    (Str(s_supported) :> 0) @@ (Str(s_contradicted) :> 0)
      @@ (Str(s_undetermined) :> 0)


Stopped == {"idle", "done", "crashed", "refused", "aborted_prompt",
            "aborted_stats", "aborted_progress", "aborted_summary"}
Running == {"loop", "call", "sleep", "returned", "save", "dump", "progress"}

Init ==
    /\ lacks = [c \in ClaimIds |-> {}]
    /\ backend \in {"hosted", "local"}
    /\ apiKey \in BOOLEAN
    /\ evidence \in SUBSET ClaimIds
    /\ files = [c \in ClaimIds |-> FileNone]
    /\ pc = "idle"
    /\ runs = 0
    /\ processed = {}
    /\ remaining = <<>>
    /\ i = 0
    /\ claim_data = NoClaim
    /\ attempt = 0
    /\ last_error = s_None
    /\ verdict = EmptyDict
    /\ stats = HostedStats
    /\ ncalls = 0
    /\ lastOutcome = NoOutcome
    /\ called = {}
    /\ completed = {}
    /\ completedEarlier = {}
    /\ wrote = {}
    /\ persistedEarlier = {}
    /\ ChunkIdle
    /\ RetrieverIdle
    /\ RestIdle

\* the resolver stage is not running
ResolverIdle ==
    /\ lacks = [c \in ClaimIds |-> {}]
    /\ backend = "hosted"
    /\ apiKey = FALSE
    /\ evidence = {}
    /\ files = [c \in ClaimIds |-> FileNone]
    /\ pc = "idle"
    /\ runs = 0
    /\ processed = {}
    /\ remaining = <<>>
    /\ i = 0
    /\ claim_data = NoClaim
    /\ attempt = 0
    /\ last_error = s_None
    /\ verdict = EmptyDict
    /\ stats = HostedStats
    /\ ncalls = 0
    /\ lastOutcome = NoOutcome
    /\ called = {}
    /\ completed = {}
    /\ completedEarlier = {}
    /\ wrote = {}
    /\ persistedEarlier = {}

(* -------------------------------- main --------------------------------- *)
\* the orders in which glob can list the files of S
Orders(S) ==
    {q \in [1..Cardinality(S) -> S] :
        \A a, b \in 1..Cardinality(S) : a # b => q[a] # q[b]}

\* line 258 listing a directory that holds no verdict file
Processed_None(fs) == {}

\* line 258: stems of the files in verdicts/
Processed(fs) == {c \in ClaimIds : fs[c].st # "none"}

\* line 259 without its filter: every evidence file is processed again
Remaining_KeepAll(evidence_files, done) == evidence_files

\* line 259: the evidence files without a verdict file, in listing order
Remaining(evidence_files, done) ==
    SelectSeq(evidence_files, LAMBDA c : c \notin done)

\* reasoning_agent.py lines 225-270, reasoning_agent_local.py lines 205-254:
\* the checks, the listing, processed and remaining
Main_Start(ollamaUp) ==
    /\ pc \in Stopped
    /\ runs < MaxRuns
    /\ runs' = runs + 1
    /\ completedEarlier' = completedEarlier \cup completed
    /\ persistedEarlier' = persistedEarlier \cup wrote
    /\ called' = {}
    /\ completed' = {}
    /\ wrote' = {}
    /\ i' = 0
    /\ claim_data' = NoClaim
    /\ attempt' = 0
    /\ last_error' = s_None
    /\ verdict' = EmptyDict
    /\ stats' = IF backend = "hosted" THEN HostedStats ELSE LocalStats
    /\ ncalls' = 0
    /\ lastOutcome' = NoOutcome
    /\ IF \/ backend = "hosted" /\ ~apiKey
          \/ backend = "local" /\ ~ollamaUp
          \/ evidence = {}
       THEN /\ pc' = "refused"
            /\ processed' = {}
            /\ remaining' = <<>>
       ELSE /\ pc' = "loop"
            /\ processed' = Processed(files)
            /\ \E evidence_files \in Orders(evidence) :
                   remaining' = Remaining(evidence_files, Processed(files))
    /\ UNCHANGED <<aside, lacks, backend, apiKey, evidence, files>>

\* lines 272-274 and 143-146: load the next evidence file, build the prompt
\* (an uncaught KeyError ends the run), enter the loop
Main_LoadClaim ==
    /\ pc = "loop"
    /\ i < Len(remaining)
    /\ claim_data' = IF "claim_id" \in lacks[remaining[i + 1]]
                      THEN NoClaim
                      ELSE EvidenceRecord(remaining[i + 1])
    /\ attempt' = 0
    /\ last_error' = s_None
    /\ ncalls' = 0
    /\ lastOutcome' = NoOutcome
    /\ verdict' = EmptyDict
    /\ pc' = IF PromptRaises(backend, lacks[remaining[i + 1]])
             THEN "aborted_prompt"
             ELSE "call"
    /\ UNCHANGED <<aside, lacks, backend, apiKey, evidence, files, runs, processed, remaining, i,
                   stats, called, completed, completedEarlier, wrote,
                   persistedEarlier>>

\* lines 148-206: one attempt, the backend call and what is done with its
\* outcome
Call_Attempt ==
    /\ backend = "hosted"
    /\ pc = "call"
    /\ attempt < MAX_RETRIES
    /\ \E out \in BackendOutcomes :
         LET r == HandleAttempt(claim_data.claim_id, out) IN
         /\ lastOutcome' = out
         /\ completed' = IF out.o = "response"
                         THEN completed \cup {OutputFile(claim_data)}
                         ELSE completed
         /\ IF r.ret
            THEN /\ verdict' = r.verdict
                 /\ pc' = "returned"
                 /\ UNCHANGED last_error
            ELSE /\ last_error' = out.msg
                 /\ pc' = "sleep"
                 /\ UNCHANGED verdict
    /\ ncalls' = ncalls + 1
    /\ called' = called \cup {OutputFile(claim_data)}
    /\ UNCHANGED <<aside, lacks, backend, apiKey, evidence, files, runs, processed, remaining, i,
                   claim_data, attempt, stats, completedEarlier, wrote,
                   persistedEarlier>>

\* reasoning_agent_local.py lines 99-167: the one call of call_ollama
Local_Call ==
    /\ backend = "local"
    /\ pc = "call"
    /\ \E out \in OllamaOutcomes :
         /\ lastOutcome' = out
         /\ completed' = IF out.o = "http"
                         THEN completed \cup {OutputFile(claim_data)}
                         ELSE completed
         /\ verdict' = call_ollama(claim_data.claim_id, out)
    /\ pc' = "returned"
    /\ ncalls' = ncalls + 1
    /\ called' = called \cup {OutputFile(claim_data)}
    /\ UNCHANGED <<aside, lacks, backend, apiKey, evidence, files, runs, processed,
                   remaining, i, claim_data, attempt, last_error, stats,
                   completedEarlier, wrote, persistedEarlier>>

\* lines 178-180, 184-186, 192-194: time.sleep(delay), then the next
\* iteration of  for attempt in range(MAX_RETRIES)
Call_Backoff ==
    /\ pc = "sleep"
    /\ attempt' = attempt + 1
    /\ pc' = "call"
    /\ UNCHANGED <<aside, lacks, backend, apiKey, evidence, files, runs, processed, remaining, i,
                   claim_data, last_error, verdict, stats, ncalls,
                   lastOutcome, called, completed, completedEarlier, wrote,
                   persistedEarlier>>

\* lines 208-210: the loop is over
Call_Exhausted ==
    /\ backend = "hosted"
    /\ pc = "call"
    /\ attempt >= MAX_RETRIES
    /\ verdict' = create_error_verdict(claim_data.claim_id,
                                       MSG_MAX_RETRIES \o last_error)
    /\ pc' = "returned"
    /\ UNCHANGED <<aside, lacks, backend, apiKey, evidence, files, runs, processed, remaining, i,
                   claim_data, attempt, last_error, stats, ncalls,
                   lastOutcome, called, completed, completedEarlier, wrote,
                   persistedEarlier>>

\* dict.get(key, default)
Get(d, key, default) == IF d[key] = Absent THEN default ELSE d[key]

\* hash() works on the value
Hashable(v) == v.t # "list"

\* line 280: the condition; .lower() exists on str only
IsErrorReasoning(v) ==
    LET r == Lower(Get(v, "reasoning", Str(<<>>)).s) IN
    Contains(s_error, r) \/ Contains(s_retries, r)

\* stats[key] = stats.get(key, 0) + 1
Bump(st, key) ==
    IF key \in DOMAIN st
    THEN [st EXCEPT ![key] = @ + 1]
    ELSE st @@ (key :> 1)

\* reasoning_agent.py lines 279-283: the statement raises
HostedStatsRaises(v) ==
    \/ Get(v, "reasoning", Str(<<>>)).t # "str"
    \/ /\ ~IsErrorReasoning(v)
       /\ v.verdict = Absent \/ ~Hashable(v.verdict)

\* reasoning_agent.py lines 279-283: the key that is counted
HostedStatsKey(v) ==
    IF IsErrorReasoning(v) THEN Str(s_errors) ELSE v.verdict

\* reasoning_agent_local.py line 264: the key that is counted
LocalStatsKey(v) == Get(v, "verdict", Str(s_undetermined))

\* reasoning_agent_local.py line 264: stats[key] += 1 raises
LocalStatsRaises(v, st) ==
    ~Hashable(LocalStatsKey(v)) \/ LocalStatsKey(v) \notin DOMAIN st

\* reasoning_agent.py lines 279-283, reasoning_agent_local.py lines 263-264
Main_UpdateStats ==
    /\ pc = "returned"
    /\ IF backend = "hosted"
       THEN IF HostedStatsRaises(verdict)
            THEN pc' = "aborted_stats" /\ UNCHANGED stats
            ELSE pc' = "save" /\ stats' = Bump(stats, HostedStatsKey(verdict))
       ELSE IF LocalStatsRaises(verdict, stats)
            THEN pc' = "aborted_stats" /\ UNCHANGED stats
            ELSE pc' = "save" /\ stats' = Bump(stats, LocalStatsKey(verdict))
    /\ UNCHANGED <<aside, lacks, backend, apiKey, evidence, files, runs, processed, remaining, i,
                   claim_data, attempt, last_error, verdict, ncalls,
                   lastOutcome, called, completed, completedEarlier, wrote,
                   persistedEarlier>>

\* lines 286-287: open(output_file, "w") creates or truncates the file
Main_OpenOutput ==
    /\ pc = "save"
    /\ files' = [files EXCEPT ![OutputFile(claim_data)] = FilePartial]
    /\ wrote' = wrote \cup {OutputFile(claim_data)}
    /\ pc' = "dump"
    /\ UNCHANGED <<aside, lacks, backend, apiKey, evidence, runs, processed, remaining, i,
                   claim_data, attempt, last_error, verdict, stats, ncalls,
                   lastOutcome, called, completed, completedEarlier,
                   persistedEarlier>>

\* line 288: json.dump and the close of the with block
Main_Dump ==
    /\ pc = "dump"
    /\ files' = [files EXCEPT ![OutputFile(claim_data)] = FileFull(verdict)]
    /\ pc' = "progress"
    /\ UNCHANGED <<aside, lacks, backend, apiKey, evidence, runs, processed, remaining, i,
                   claim_data, attempt, last_error, verdict, stats, ncalls,
                   lastOutcome, called, completed, completedEarlier, wrote,
                   persistedEarlier>>

\* reasoning_agent.py line 291, reasoning_agent_local.py line 276: the
\* progress line is printed
ProgressDue(every, idx, n) == (idx + 1) % every = 0 \/ idx = n - 1

\* lines 292-293: verdict['verdict'] and format(confidence, ".2f") work
ProgressFormats(v) ==
    /\ v.verdict # Absent
    /\ Get(v, "confidence", Num(0)).t = "num"

\* lines 290-297, and the step of the for loop
Main_Progress ==
    /\ pc = "progress"
    /\ IF /\ ProgressDue(IF backend = "hosted" THEN 10 ELSE 5, i,
                         Len(remaining))
          /\ ~ProgressFormats(verdict)
       THEN pc' = "aborted_progress" /\ UNCHANGED i
       ELSE pc' = "loop" /\ i' = i + 1
    /\ UNCHANGED <<aside, lacks, backend, apiKey, evidence, files, runs, processed, remaining,
                   claim_data, attempt, last_error, verdict, stats, ncalls,
                   lastOutcome, called, completed, completedEarlier, wrote,
                   persistedEarlier>>

\* lines 305-309: every file of verdicts/ loads and has a verdict key
SummaryLoads(fs) ==
    \A c \in ClaimIds :
        /\ fs[c].st # "partial"
        /\ fs[c].st = "full" => fs[c].d.verdict # Absent

\* lines 299-318
Main_Summary ==
    /\ pc = "loop"
    /\ i >= Len(remaining)
    /\ pc' = IF backend = "local" \/ SummaryLoads(files)
             THEN "done" ELSE "aborted_summary"
    /\ UNCHANGED <<aside, lacks, backend, apiKey, evidence, files, runs, processed, remaining, i,
                   claim_data, attempt, last_error, verdict, stats, ncalls,
                   lastOutcome, called, completed, completedEarlier, wrote,
                   persistedEarlier>>

\* the process is killed while the stage runs: its memory is gone, the
\* files stay
Crash ==
    /\ pc \in Running
    /\ pc' = "crashed"
    /\ processed' = {}
    /\ remaining' = <<>>
    /\ i' = 0
    /\ claim_data' = NoClaim
    /\ attempt' = 0
    /\ last_error' = s_None
    /\ verdict' = EmptyDict
    /\ stats' = HostedStats
    /\ ncalls' = 0
    /\ lastOutcome' = NoOutcome
    /\ UNCHANGED <<aside, lacks, backend, apiKey, evidence, files, runs, called, completed,
                   completedEarlier, wrote, persistedEarlier>>

Next ==
    \/ \E ollamaUp \in BOOLEAN : Main_Start(ollamaUp)
    \/ Main_LoadClaim
    \/ Call_Attempt
    \/ Local_Call
    \/ Call_Backoff
    \/ Call_Exhausted
    \/ Main_UpdateStats
    \/ Main_OpenOutput
    \/ Main_Dump
    \/ Main_Progress
    \/ Main_Summary
    \/ Crash

Spec == Init /\ [][Next]_vars

\* the evidence files a run can meet when one of them lacks a required field
LackCases == {"claim_text", "evidence", "item.text", "item.chunk_idx",
              "book_name"}

InitEvidence ==
    /\ lacks \in {[c \in ClaimIds |-> IF c = "2" THEN {f} ELSE {}] :
                    f \in LackCases}
    /\ backend \in {"hosted", "local"}
    /\ apiKey = TRUE
    /\ evidence = ClaimIds
    /\ files = [c \in ClaimIds |-> FileNone]
    /\ pc = "idle"
    /\ runs = 0
    /\ processed = {}
    /\ remaining = <<>>
    /\ i = 0
    /\ claim_data = NoClaim
    /\ attempt = 0
    /\ last_error = s_None
    /\ verdict = EmptyDict
    /\ stats = HostedStats
    /\ ncalls = 0
    /\ lastOutcome = NoOutcome
    /\ called = {}
    /\ completed = {}
    /\ completedEarlier = {}
    /\ wrote = {}
    /\ persistedEarlier = {}
    /\ ChunkIdle
    /\ RetrieverIdle
    /\ RestIdle

SpecEvidence == InitEvidence /\ [][Next]_vars

(* -------------------- chunk_text (ingestion_agent.py) ------------------ *)
MaxTokens == 4
MaxWindow == 3

\* the texts of the tokens of the vocabulary
TokenTexts == {<<"a">>, <<"b">>, <<"a", "b">>}

Min(a, b) == IF a <= b THEN a ELSE b
Max(a, b) == IF a >= b THEN a ELSE b

\* encoding.decode on tokens of ASCII text: the token texts, concatenated
RECURSIVE Decode(_)
Decode(toks) ==
    IF toks = <<>> THEN <<>> ELSE Head(toks) \o Decode(Tail(toks))

\* the slice s[a:b] of Python, 0 <= a
Slice(s, a, b) == SubSeq(s, a + 1, Min(b, Len(s)))

\* str.find(sub, start): the lowest index >= start at which sub occurs, else -1
Find(s, sub, start) ==
    LET occ == {j \in start..(Len(s) - Len(sub)) :
                   SubSeq(s, j + 1, j + Len(sub)) = sub}
    IN  IF occ = {} THEN 0 - 1 ELSE CHOOSE j \in occ : \A h \in occ : j <= h

\* line 54: the search starts this many characters before the estimate
SearchSlack == 100
\* line 55: chunk_text[:100]
SearchPrefix == 100

\* line 70 without the overlap: the window moves by its whole size
Stride_NoOverlap(size, ov) == size

\* line 70: token_idx += (chunk_size - overlap)
Stride(size, ov) == size - ov

\* line 74 with > for >=
LoopEnds_Strict(end_idx, n) == end_idx > n

\* line 74: if end_idx >= len(tokens): break
LoopEnds(end_idx, n) == end_idx >= n

\* lines 45-59: the character offset of the chunk that starts at token t_idx
CharStart(text, toks, cks, t_idx, c_idx, ov, chunk_txt) ==
    IF c_idx = 0
    THEN 0
    ELSE LET overlap_tokens == Slice(toks, Max(0, t_idx - ov), t_idx)
             overlap_text == Decode(overlap_tokens)
             search_start == cks[Len(cks)].char_end - Len(overlap_text)
                               - SearchSlack
             char_start == Find(text, Slice(chunk_txt, 0, SearchPrefix),
                                Max(0, search_start))
         IN  IF char_start = 0 - 1
             THEN cks[Len(cks)].char_end
             ELSE char_start

\* the text handed to chunk_text; tokens is its encoding
Text == Decode(tokens)

\* the inputs: a text given by its tokenisation, a window and an overlap
\* below it
InitChunk ==
    /\ ResolverIdle
    /\ RetrieverIdle
    /\ RestIdle
    /\ tokens \in UNION {[1..n -> TokenTexts] : n \in 0..MaxTokens}
    /\ chunk_size \in 1..MaxWindow
    /\ overlap \in 0..(chunk_size - 1)
    /\ token_idx = 0
    /\ chunk_idx = 0
    /\ chunks = <<>>
    /\ tstarts = <<>>
    /\ cpc = "start"

\* lines 31-35
Chunk_Start ==
    /\ cpc = "start"
    /\ chunks' = <<>>
    /\ tstarts' = <<>>
    /\ token_idx' = 0
    /\ chunk_idx' = 0
    /\ cpc' = "loop"
    /\ UNCHANGED <<tokens, chunk_size, overlap, resolverVars, retrieverVars, restVars>>

\* lines 37-75: one iteration of the while loop
Chunk_Iterate ==
    /\ cpc = "loop"
    /\ token_idx < Len(tokens)
    /\ LET end_idx == Min(token_idx + chunk_size, Len(tokens))
           chunk_tokens == Slice(tokens, token_idx, end_idx)
           chunk_txt == Decode(chunk_tokens)
           char_start == CharStart(Text, tokens, chunks, token_idx, chunk_idx,
                                   overlap, chunk_txt)
           char_end == char_start + Len(chunk_txt)
       IN  /\ chunks' = Append(chunks,
                               [chunk_idx |-> chunk_idx,
                                char_start |-> char_start,
                                char_end |-> char_end,
                                text |-> chunk_txt,
                                token_count |-> Len(chunk_tokens)])
           /\ cpc' = IF LoopEnds(end_idx, Len(tokens)) THEN "done" ELSE "loop"
    /\ tstarts' = Append(tstarts, token_idx)
    /\ token_idx' = token_idx + Stride(chunk_size, overlap)
    /\ chunk_idx' = chunk_idx + 1
    /\ UNCHANGED <<tokens, chunk_size, overlap, resolverVars, retrieverVars, restVars>>

\* line 37 false, line 77
Chunk_Return ==
    /\ cpc = "loop"
    /\ ~(token_idx < Len(tokens))
    /\ cpc' = "done"
    /\ UNCHANGED <<tokens, chunk_size, overlap, token_idx, chunk_idx, chunks,
                   tstarts, resolverVars, retrieverVars, restVars>>

NextChunk ==
    \/ Chunk_Start
    \/ Chunk_Iterate
    \/ Chunk_Return

SpecChunk == InitChunk /\ [][NextChunk]_vars

\* chunk_text runs without waiting for anything: a step that can be taken is
\* taken
SpecChunkFair == SpecChunk /\ WF_vars(NextChunk)

(* ----------------- retrieve_evidence (retriever_agent.py) -------------- *)
MaxVectors == 4

TOP_K == 6
FINAL_K == 3

\* scores are inner products of unit vectors, here in hundredths
SimValues == {50, 60, 70}
\* the score index.search reports in a slot it could not fill
NoHitScore == 0 - 1000000

\* book names of the chunks: "a_B", "x y"
MetaBooks == {<<"a", "_", "B">>, <<"x", " ", "y">>}
\* book names of the claims: "AB c", "b"
ClaimBooks == {<<"A", "B", " ", "c">>, <<"b">>}

\* lines 66 and 75: .lower().replace(" ", "").replace("_", "")
NormalizeBook(name) == SelectSeq(Lower(name), LAMBDA c : c \notin {" ", "_"})

\* line 76
IsSameBook(claim_book, meta_book) ==
    \/ Contains(NormalizeBook(claim_book), NormalizeBook(meta_book))
    \/ Contains(NormalizeBook(meta_book), NormalizeBook(claim_book))

\* line 78: 0.2, in hundredths
SameBookBoost == 20

\* metadata[idx] of Python: a negative idx counts from the end
MetaAt(meta, idx) ==
    IF idx < 0 THEN meta[Len(meta) + idx + 1] ELSE meta[idx + 1]

\* lines 72-88 with the raw score at line 78
Candidate_NoBoost(hit, meta, claim_book) ==
    [chunk_idx |-> MetaAt(meta, hit.idx).chunk_idx,
     book |-> MetaAt(meta, hit.idx).book,
     score |-> hit.score,
     is_same_book |-> IsSameBook(claim_book, MetaAt(meta, hit.idx).book)]

\* lines 72-88: the result built for one (score, idx) pair
Candidate(hit, meta, claim_book) ==
    LET is_same_book == IsSameBook(claim_book, MetaAt(meta, hit.idx).book)
    IN  [chunk_idx |-> MetaAt(meta, hit.idx).chunk_idx,
         book |-> MetaAt(meta, hit.idx).book,
         score |-> hit.score + (IF is_same_book THEN SameBookBoost ELSE 0),
         is_same_book |-> is_same_book]

\* lines 68-88: the loop over the pairs, skipping idx == -1
RECURSIVE Candidates(_, _, _)
Candidates(hs, meta, claim_book) ==
    IF hs = <<>>
    THEN <<>>
    ELSE IF Head(hs).idx = 0 - 1
    THEN Candidates(Tail(hs), meta, claim_book)
    ELSE <<Candidate(Head(hs), meta, claim_book)>>
           \o Candidates(Tail(hs), meta, claim_book)

\* line 91 with reverse=False
SortsBefore_Ascending(a, b) == a.score < b.score

\* line 91: key score, reverse=True
SortsBefore(a, b) == a.score > b.score

\* list.sort is stable: x goes behind every element it does not sort before
RECURSIVE SortInsert(_, _)
SortInsert(sorted, x) ==
    IF sorted = <<>>
    THEN <<x>>
    ELSE IF SortsBefore(x, Head(sorted))
    THEN <<x>> \o sorted
    ELSE <<Head(sorted)>> \o SortInsert(Tail(sorted), x)

RECURSIVE SortResults(_)
SortResults(rs) ==
    IF rs = <<>>
    THEN <<>>
    ELSE SortInsert(SortResults(SubSeq(rs, 1, Len(rs) - 1)), rs[Len(rs)])

\* the orders in which index.search can report the vectors: best first,
\* equal scores in any order
SearchOrders(sm) ==
    {q \in [1..Len(sm) -> 0..(Len(sm) - 1)] :
        /\ \A a, b \in 1..Len(sm) : a # b => q[a] # q[b]
        /\ \A a \in 1..(Len(sm) - 1) : sm[q[a] + 1] >= sm[q[a + 1] + 1]}

\* line 59: index.search(query, k): k pairs, idx -1 where the index has no
\* more vectors
Search(sm, q, k) ==
    [j \in 1..k |->
        IF j <= Len(sm)
        THEN [score |-> sm[q[j] + 1], idx |-> q[j]]
        ELSE [score |-> NoHitScore, idx |-> 0 - 1]]

\* the inputs: an index with its metadata, the scores of its vectors for the
\* query, the book of the claim
InitRetrieve ==
    /\ ResolverIdle
    /\ ChunkIdle
    /\ RestIdle
    /\ metadata \in UNION
         {{[k \in 1..n |-> [book |-> b[k], chunk_idx |-> k - 1]] :
              b \in [1..n -> MetaBooks]} : n \in 0..MaxVectors}
    /\ sims \in [1..Len(metadata) -> SimValues]
    /\ book_name \in ClaimBooks
    /\ hits = <<>>
    /\ results = <<>>
    /\ rpc = "start"

\* lines 54-59
Retrieve_Search ==
    /\ rpc = "start"
    /\ \E q \in SearchOrders(sims) : hits' = Search(sims, q, TOP_K * 2)
    /\ rpc' = "searched"
    /\ UNCHANGED <<metadata, sims, book_name, results, resolverVars,
                   chunkVars, restVars>>

\* lines 62-88
Retrieve_Build ==
    /\ rpc = "searched"
    /\ results' = Candidates(hits, metadata, book_name)
    /\ rpc' = "built"
    /\ UNCHANGED <<metadata, sims, book_name, hits, resolverVars, chunkVars, restVars>>

\* line 91
Retrieve_Sort ==
    /\ rpc = "built"
    /\ results' = SortResults(results)
    /\ rpc' = "sorted"
    /\ UNCHANGED <<metadata, sims, book_name, hits, resolverVars, chunkVars, restVars>>

\* line 92
Retrieve_Return ==
    /\ rpc = "sorted"
    /\ results' = Slice(results, 0, FINAL_K)
    /\ rpc' = "done"
    /\ UNCHANGED <<metadata, sims, book_name, hits, resolverVars, chunkVars, restVars>>

NextRetrieve ==
    \/ Retrieve_Search
    \/ Retrieve_Build
    \/ Retrieve_Sort
    \/ Retrieve_Return

SpecRetrieve == InitRetrieve /\ [][NextRetrieve]_vars

(* ---------------------- main (retriever_agent.py) ---------------------- *)
MaxClaims == 2

\* vector counts of an index, lengths of a metadata list
IndexSizes == {0, 1, 2, 13}

\* the vectors index.search names for one query: TOP_K * 2 of them, all of
\* them when the index holds fewer
SearchSets(n) ==
    {S \in SUBSET (0..(n - 1)) : Cardinality(S) = Min(TOP_K * 2, n)}

\* the files the stage can find: embedding_agent.py writes the index at line
\* 110 and the metadata at lines 113-114, each on its own
InitRetrieverMain ==
    /\ ResolverIdle
    /\ ChunkIdle
    /\ RetrieverIdle
    /\ AggIdle
    /\ LaterIdle
    /\ claimsFile \in BOOLEAN
    /\ nclaims \in 0..MaxClaims
    /\ faissIndex \in {NoFile} \cup IndexSizes
    /\ metaPkl \in {NoFile} \cup IndexSizes
    /\ claimNo = 0
    /\ evidenceWritten = 0
    /\ spc = "start"

\* lines 102-107
RetrieverMain_Check ==
    /\ spc = "start"
    /\ spc' = IF ~claimsFile \/ faissIndex = NoFile
              THEN "returned"
              ELSE "checked"
    /\ UNCHANGED <<claimsFile, nclaims, faissIndex, metaPkl, claimNo,
                   evidenceWritten, resolverVars, chunkVars, retrieverVars,
                   aggVars, laterVars>>

\* lines 110-123 and 34-39: open(META_FILE) raises when the file is absent
RetrieverMain_Load ==
    /\ spc = "checked"
    /\ spc' = IF metaPkl = NoFile THEN "raised" ELSE "loop"
    /\ claimNo' = 0
    /\ UNCHANGED <<claimsFile, nclaims, faissIndex, metaPkl, evidenceWritten,
                   resolverVars, chunkVars, retrieverVars, aggVars, laterVars>>

\* lines 125-138: retrieve_evidence for one claim (metadata[idx] at line 72
\* raises IndexError past the end of the list), then the bundle is written
RetrieverMain_Claim ==
    /\ spc = "loop"
    /\ claimNo < nclaims
    /\ \E found \in SearchSets(faissIndex) :
           IF \E idx \in found : idx >= metaPkl
           THEN /\ spc' = "raised"
                /\ UNCHANGED <<claimNo, evidenceWritten>>
           ELSE /\ spc' = "loop"
                /\ claimNo' = claimNo + 1
                /\ evidenceWritten' = evidenceWritten + 1
    /\ UNCHANGED <<claimsFile, nclaims, faissIndex, metaPkl, resolverVars,
                   chunkVars, retrieverVars, aggVars, laterVars>>

\* lines 143-144
RetrieverMain_Done ==
    /\ spc = "loop"
    /\ claimNo >= nclaims
    /\ spc' = "done"
    /\ UNCHANGED <<claimsFile, nclaims, faissIndex, metaPkl, claimNo,
                   evidenceWritten, resolverVars, chunkVars, retrieverVars,
                   aggVars, laterVars>>

NextRetrieverMain ==
    \/ RetrieverMain_Check
    \/ RetrieverMain_Load
    \/ RetrieverMain_Claim
    \/ RetrieverMain_Done

SpecRetrieverMain == InitRetrieverMain /\ [][NextRetrieverMain]_vars

(* --------------------- main (results_aggregator.py) -------------------- *)
MaxFiles == 2

\* the claim ids of the verdict files: "1", "01", "10", "a"
AggIds == {<<"1">>, <<"0", "1">>, <<"1", "0">>, <<"a">>}

\* the verdict values the resolvers persist; the local one persists a record
\* without the key
AggVerdicts ==
    {Str(s_supported), Str(s_contradicted), Str(s_undetermined),
     Str(s_maybe), Absent}

\* lengths of the reasoning of a verdict
ReasoningLengths == {10, 250}

\* book_name and character of a record of claims.jsonl
s_Book == <<"B">>
s_Character == <<"C">>

\* lines 18-22 with contradicted mapped to 1
VERDICT_MAP_Flipped ==
    (s_supported :> 1) @@ (s_contradicted :> 1) @@ (s_undetermined :> 0)

\* lines 18-22
VERDICT_MAP ==
    (s_supported :> 1) @@ (s_contradicted :> 0) @@ (s_undetermined :> 0)

\* line 65: VERDICT_MAP.get(verdict["verdict"], 0)
Prediction(v) ==
    IF v.t = "str" /\ v.s \in DOMAIN VERDICT_MAP THEN VERDICT_MAP[v.s] ELSE 0

\* lines 68-70: the length of the rationale
RationaleLen(n) == IF n > 200 THEN 197 + 3 ELSE n

\* lines 61-80: the row of one verdict file
Row(vf, claims) ==
    [id |-> vf.claim_id,
     book_name |-> IF vf.claim_id \in claims THEN s_Book ELSE <<>>,
     character |-> IF vf.claim_id \in claims THEN s_Character ELSE <<>>,
     prediction |-> Prediction(vf.verdict),
     verdict |-> vf.verdict,
     rationale |-> RationaleLen(vf.rlen)]

\* lines 57-80 skipping the verdicts without a claim record
RECURSIVE Collect_KnownOnly(_, _)
Collect_KnownOnly(fs, claims) ==
    IF fs = <<>>
    THEN <<>>
    ELSE IF Head(fs).claim_id \in claims
    THEN <<Row(Head(fs), claims)>> \o Collect_KnownOnly(Tail(fs), claims)
    ELSE Collect_KnownOnly(Tail(fs), claims)

\* lines 57-80: one row for every verdict file
RECURSIVE Collect(_, _)
Collect(fs, claims) ==
    IF fs = <<>>
    THEN <<>>
    ELSE <<Row(Head(fs), claims)>> \o Collect(Tail(fs), claims)

\* line 65 raises KeyError on a verdict without the key "verdict"
CollectRaises(fs) == \E k \in 1..Len(fs) : fs[k].verdict = Absent

Digits == <<"0", "1", "2", "3", "4", "5", "6", "7", "8", "9">>
DigitOf(c) == (CHOOSE k \in 1..10 : Digits[k] = c) - 1
IsDigit(c) == \E k \in 1..10 : Digits[k] = c

\* int(s) does not raise ValueError
IsInt(str) == str # <<>> /\ \A k \in 1..Len(str) : IsDigit(str[k])

\* int(s)
RECURSIVE IntOf(_)
IntOf(str) ==
    IF str = <<>>
    THEN 0
    ELSE 10 * IntOf(SubSeq(str, 1, Len(str) - 1)) + DigitOf(str[Len(str)])

\* the code point order of the characters of the ids: digits before letters
CharCode(c) == IF IsDigit(c) THEN 48 + DigitOf(c) ELSE 97

\* a < b for Python strings
RECURSIVE StrLess(_, _)
StrLess(a, b) ==
    IF b = <<>> THEN FALSE
    ELSE IF a = <<>> THEN TRUE
    ELSE IF CharCode(Head(a)) # CharCode(Head(b))
    THEN CharCode(Head(a)) < CharCode(Head(b))
    ELSE StrLess(Tail(a), Tail(b))

\* the key of line 84 (numeric) or of line 86
RowBefore(numeric, a, b) ==
    IF numeric THEN IntOf(a.id) < IntOf(b.id) ELSE StrLess(a.id, b.id)

\* list.sort is stable: x goes behind every row it does not sort before
RECURSIVE RowInsert(_, _, _)
RowInsert(numeric, sorted, x) ==
    IF sorted = <<>>
    THEN <<x>>
    ELSE IF RowBefore(numeric, x, Head(sorted))
    THEN <<x>> \o sorted
    ELSE <<Head(sorted)>> \o RowInsert(numeric, Tail(sorted), x)

RECURSIVE SortRowsBy(_, _)
SortRowsBy(numeric, rs) ==
    IF rs = <<>>
    THEN <<>>
    ELSE RowInsert(numeric, SortRowsBy(numeric, SubSeq(rs, 1, Len(rs) - 1)),
                   rs[Len(rs)])

\* lines 83-86: by int(id), by id when an id is no integer
SortRows(rs) == SortRowsBy(\A k \in 1..Len(rs) : IsInt(rs[k].id), rs)

\* the orders in which glob can list the files fs
Listings(fs) ==
    {[k \in 1..Len(fs) |-> fs[q[k]]] :
        q \in {r \in [1..Len(fs) -> 1..Len(fs)] :
                 \A a, b \in 1..Len(fs) : a # b => r[a] # r[b]}}

\* the verdict files (one file per claim id) and the claim records
InitAgg ==
    /\ ResolverIdle
    /\ ChunkIdle
    /\ RetrieverIdle
    /\ RetrieverMainIdle
    /\ LaterIdle
    /\ verdict_files \in UNION
         {{f \in [1..n -> [claim_id : AggIds, verdict : AggVerdicts,
                           rlen : ReasoningLengths]] :
              \A a, b \in 1..n : a # b => f[a].claim_id # f[b].claim_id} :
          n \in 0..MaxFiles}
    /\ claimStore \in {{}, {<<"1">>, <<"1", "0">>}}
    /\ aggResults = <<>>
    /\ report = <<>>
    /\ reportWritten = FALSE
    /\ altReport = <<>>
    /\ apc = "start"

\* lines 43-55
Agg_Start ==
    /\ apc = "start"
    /\ apc' = IF verdict_files = <<>> THEN "returned" ELSE "collect"
    /\ aggResults' = <<>>
    /\ UNCHANGED <<verdict_files, claimStore, report, reportWritten,
                   altReport, resolverVars, chunkVars, retrieverVars,
                   retrieverMainVars, laterVars>>

\* lines 57-80
Agg_Collect ==
    /\ apc = "collect"
    /\ IF CollectRaises(verdict_files)
       THEN apc' = "raised" /\ UNCHANGED aggResults
       ELSE /\ apc' = "sort"
            /\ aggResults' = Collect(verdict_files, claimStore)
    /\ UNCHANGED <<verdict_files, claimStore, report, reportWritten,
                   altReport, resolverVars, chunkVars, retrieverVars,
                   retrieverMainVars, laterVars>>

\* lines 83-86
Agg_Sort ==
    /\ apc = "sort"
    /\ aggResults' = SortRows(aggResults)
    /\ apc' = "write"
    /\ UNCHANGED <<verdict_files, claimStore, report, reportWritten,
                   altReport, resolverVars, chunkVars, retrieverVars,
                   retrieverMainVars, laterVars>>

\* lines 89-98; altReport is what lines 57-96 write for another listing of
\* the same files
Agg_Write ==
    /\ apc = "write"
    /\ report' = aggResults
    /\ reportWritten' = TRUE
    /\ \E other \in Listings(verdict_files) :
           altReport' = SortRows(Collect(other, claimStore))
    /\ apc' = "written"
    /\ UNCHANGED <<verdict_files, claimStore, aggResults, resolverVars,
                   chunkVars, retrieverVars, retrieverMainVars, laterVars>>

\* lines 100-123
Agg_Summary ==
    /\ apc = "written"
    /\ apc' = "done"
    /\ UNCHANGED <<verdict_files, claimStore, aggResults, report,
                   reportWritten, altReport, resolverVars, chunkVars,
                   retrieverVars, retrieverMainVars, laterVars>>

NextAgg ==
    \/ Agg_Start
    \/ Agg_Collect
    \/ Agg_Sort
    \/ Agg_Write
    \/ Agg_Summary

SpecAgg == InitAgg /\ [][NextAgg]_vars

(* --------------------------- main (run_all.py) ------------------------- *)
\* lines 19-27
STAGES ==
    <<[name |-> <<"I", "n", "g", "e", "s", "t", "i", "o", "n">>,
       script |-> "agents/ingestion_agent.py"],
      [name |-> <<"E", "m", "b", "e", "d", "d", "i", "n", "g">>,
       script |-> "agents/embedding_agent.py"],
      [name |-> <<"C", "l", "a", "i", "m", "s">>,
       script |-> "agents/claim_parser.py"],
      [name |-> <<"R", "e", "t", "r", "i", "e", "v", "a", "l">>,
       script |-> "agents/retriever_agent.py"],
      [name |-> <<"R", "e", "a", "s", "o", "n", "i", "n", "g">>,
       script |-> "agents/reasoning_agent.py"],
      [name |-> <<"D", "o", "s", "s", "i", "e", "r", "s">>,
       script |-> "agents/dossier_writer.py"],
      [name |-> <<"R", "e", "s", "u", "l", "t", "s">>,
       script |-> "agents/results_aggregator.py"]>>

s_Reasoning == <<"R", "e", "a", "s", "o", "n", "i", "n", "g">>

\* lines 80-81: the script of the Reasoning stage under --local
LocalStages ==
    [k \in 1..Len(STAGES) |->
        IF STAGES[k].script = "agents/reasoning_agent.py"
        THEN [STAGES[k] EXCEPT !.script = "agents/reasoning_agent_local.py"]
        ELSE STAGES[k]]

\* the values argparse accepts for --start-from (line 66), <<>> for no option
StartChoices == {<<>>} \cup {Lower(STAGES[k].name) : k \in 1..Len(STAGES)}

\* lines 85-92: stage_names.index(args.start_from), 0 without the option
StartIdx(stgs, start_from) ==
    IF start_from # <<>>
       /\ \E k \in 1..Len(stgs) : Lower(stgs[k].name) = start_from
    THEN (CHOOSE k \in 1..Len(stgs) :
             /\ Lower(stgs[k].name) = start_from
             /\ \A j \in 1..(k - 1) : Lower(stgs[j].name) # start_from) - 1
    ELSE 0

\* how a stage script can end: it is not there (line 37), it cannot be
\* launched (line 55), it runs to its end, it prints ERROR for a missing input
\* and returns from main (exit status 0), it ends with an exit status other
\* than 0
StageOutcomes ==
    {"no_script", "launch_error", "finished", "stopped_on_missing_input",
     "exit_nonzero"}

\* lines 30-57 returning True for every outcome
run_stage_AlwaysTrue(outcome) == TRUE

\* lines 30-57: the value run_stage returns
run_stage(outcome) == outcome \in {"finished", "stopped_on_missing_input"}

\* the command line
InitOrch ==
    /\ ResolverIdle
    /\ ChunkIdle
    /\ RetrieverIdle
    /\ RetrieverMainIdle
    /\ AggIdle
    /\ UploadIdle
    /\ startFrom \in StartChoices
    /\ skipReasoning \in BOOLEAN
    /\ useLocal \in BOOLEAN
    /\ stages = STAGES
    /\ stageNo = 0
    /\ started = <<>>
    /\ exitStatus = NoExit
    /\ complete = FALSE
    /\ opc = "start"

\* lines 60-95
Orch_Start ==
    /\ opc = "start"
    /\ stages' = IF useLocal THEN LocalStages ELSE STAGES
    /\ stageNo' = StartIdx(IF useLocal THEN LocalStages ELSE STAGES, startFrom)
    /\ opc' = "loop"
    /\ UNCHANGED <<startFrom, skipReasoning, useLocal, started, exitStatus,
                   complete, resolverVars, chunkVars, retrieverVars,
                   retrieverMainVars, aggVars, uploadVars>>

\* lines 97-101: --skip-reasoning
Orch_Skip ==
    /\ opc = "loop"
    /\ stageNo < Len(stages)
    /\ skipReasoning /\ stages[stageNo + 1].name = s_Reasoning
    /\ stageNo' = stageNo + 1
    /\ UNCHANGED <<startFrom, skipReasoning, useLocal, stages, started,
                   exitStatus, complete, opc, resolverVars, chunkVars,
                   retrieverVars, retrieverMainVars, aggVars, uploadVars>>

\* lines 97-109: run_stage for the next stage, sys.exit(1) when it fails
Orch_RunStage ==
    /\ opc = "loop"
    /\ stageNo < Len(stages)
    /\ ~(skipReasoning /\ stages[stageNo + 1].name = s_Reasoning)
    /\ \E outcome \in StageOutcomes :
          /\ started' = Append(started,
                               [name |-> stages[stageNo + 1].name,
                                script |-> stages[stageNo + 1].script,
                                outcome |-> outcome])
          /\ IF run_stage(outcome)
             THEN /\ stageNo' = stageNo + 1
                  /\ UNCHANGED <<exitStatus, opc>>
             ELSE /\ exitStatus' = 1
                  /\ opc' = "exited"
                  /\ UNCHANGED stageNo
    /\ UNCHANGED <<startFrom, skipReasoning, useLocal, stages, complete,
                   resolverVars, chunkVars, retrieverVars, retrieverMainVars,
                   aggVars, uploadVars>>

\* lines 111-124
Orch_Complete ==
    /\ opc = "loop"
    /\ stageNo >= Len(stages)
    /\ complete' = TRUE
    /\ exitStatus' = 0
    /\ opc' = "exited"
    /\ UNCHANGED <<startFrom, skipReasoning, useLocal, stages, stageNo,
                   started, resolverVars, chunkVars, retrieverVars,
                   retrieverMainVars, aggVars, uploadVars>>

NextOrch ==
    \/ Orch_Start
    \/ Orch_Skip
    \/ Orch_RunStage
    \/ Orch_Complete

SpecOrch == InitOrch /\ [][NextOrch]_vars

(* -------------------- upload_file (flask_api/upload.py) ---------------- *)
\* line 26
ALLOWED_EXTENSIONS == {<<"t", "x", "t">>, <<"p", "d", "f">>, <<"d", "o", "c", "x">>, <<"d", "o", "c">>}

\* the pipeline artifacts: the files of the six directories of line 200 and
\* output/results.csv
PipelineDirs == {"chunks", "index", "claims", "evidence", "verdicts",
                 "dossiers"}
ResultsCsv == "output/results.csv"

\* the file names of the requests: none, "b.txt", "b.<<"p", "d", "f">>", "b.exe", "b"
UploadNames == {<<>>, <<"b", ".", "t", "x", "t">>, <<"b", ".", "P", "D", "F">>, <<"b", ".", "e", "x", "e">>, <<"b">>}

\* what extract_text gives: text, blank text, or it raises ValueError
Extractions == {"text", "blank", "fails"}

\* filename.rsplit('.', 1)[1]
AfterLastDot(name) ==
    LET dots == {k \in 1..Len(name) : name[k] = "."}
        last == CHOOSE k \in dots : \A j \in dots : j <= k
    IN  SubSeq(name, last + 1, Len(name))

\* lines 33-35
allowed_file(name) ==
    /\ \E k \in 1..Len(name) : name[k] = "."
    /\ Lower(AfterLastDot(name)) \in ALLOWED_EXTENSIONS

\* lines 199-208: the files of the six directories and results.csv are
\* deleted
Cleared(arts) == arts \ (PipelineDirs \cup {ResultsCsv})

\* a request and the artifacts it finds
InitUpload ==
    /\ ResolverIdle
    /\ ChunkIdle
    /\ RetrieverIdle
    /\ RetrieverMainIdle
    /\ AggIdle
    /\ OrchIdle
    /\ request \in [hasFile : BOOLEAN, filename : UploadNames,
                    tooLarge : BOOLEAN, extraction : Extractions]
    /\ artifacts \in SUBSET (PipelineDirs \cup {ResultsCsv})
    /\ artifactsBefore = artifacts
    /\ historySaved = FALSE
    /\ response = NoResponse
    /\ upc = "start"

\* lines 124-138
Upload_Validate ==
    /\ upc = "start"
    /\ IF ~request.hasFile \/ request.filename = <<>>
          \/ ~allowed_file(request.filename)
       THEN response' = 400 /\ upc' = "responded"
       ELSE response' = response /\ upc' = "history"
    /\ UNCHANGED <<request, artifacts, artifactsBefore, historySaved,
                   resolverVars, chunkVars, retrieverVars, retrieverMainVars,
                   aggVars, orchVars>>

\* lines 141-197: the results are copied to history/
Upload_History ==
    /\ upc = "history"
    /\ historySaved' = (ResultsCsv \in artifacts)
    /\ upc' = "clear"
    /\ UNCHANGED <<request, artifacts, artifactsBefore, response,
                   resolverVars, chunkVars, retrieverVars, retrieverMainVars,
                   aggVars, orchVars>>

\* lines 199-208
Upload_Clear ==
    /\ upc = "clear"
    /\ artifacts' = Cleared(artifacts)
    /\ upc' = "process"
    /\ UNCHANGED <<request, artifactsBefore, historySaved, response,
                   resolverVars, chunkVars, retrieverVars, retrieverMainVars,
                   aggVars, orchVars>>

\* lines 210-273: the size check, the extraction, the new novel
Upload_Process ==
    /\ upc = "process"
    /\ response' = IF request.tooLarge THEN 400
                   ELSE IF request.extraction = "fails" THEN 400
                   ELSE IF request.extraction = "blank" THEN 400
                   ELSE 200
    /\ upc' = "responded"
    /\ UNCHANGED <<request, artifacts, artifactsBefore, historySaved,
                   resolverVars, chunkVars, retrieverVars, retrieverMainVars,
                   aggVars, orchVars>>

\* lines 271-273: an exception other than ValueError in lines 141-267
Upload_Exception ==
    /\ upc \in {"history", "clear", "process"}
    /\ response' = 500
    /\ upc' = "responded"
    /\ UNCHANGED <<request, artifacts, artifactsBefore, historySaved,
                   resolverVars, chunkVars, retrieverVars, retrieverMainVars,
                   aggVars, orchVars>>

NextUpload ==
    \/ Upload_Validate
    \/ Upload_History
    \/ Upload_Clear
    \/ Upload_Process
    \/ Upload_Exception

SpecUpload == InitUpload /\ [][NextUpload]_vars

(* ------------------------------ properties ----------------------------- *)
\* call_claude_with_retry (or call_ollama) has returned and main holds its
\* verdict
AfterReturn == pc \in {"returned", "save", "dump", "progress"}
\* the attempt loop of call_claude_with_retry is running
InLoop == pc \in {"call", "sleep"}

Hosted == backend = "hosted"

VerdictEnum == {Str(s_supported), Str(s_contradicted), Str(s_undetermined)}

\* the plain reply text holding the JSON object d
PlainReply(d) == Response(<< <<JsonLine(Dict(d))>> >>)

\* C1: a claim whose verdict file exists when the stage starts is never sent
\* to the backend and its file is never rewritten; when every evidence claim
\* has a verdict file at the start, the run issues no backend call at all.
C1_SkipPersisted ==
    /\ [](called \cap processed = {})
    /\ []((pc # "crashed" /\ evidence \subseteq processed) => called = {})
    /\ [][\A c \in processed : files'[c] = files[c]]_vars

C1_Witness ==
    /\ runs = 2
    /\ pc = "done"
    /\ evidence = ClaimIds
    /\ processed = ClaimIds
    /\ called = {}
    /\ \A c \in ClaimIds : files[c].st = "full"

\* C2: the verdict the hosted resolver returns and persists always has its
\* verdict in {supported, contradicted, undetermined} and a numeric
\* confidence in [0,1].
WellFormed(v) ==
    /\ v.verdict \in VerdictEnum
    /\ v.confidence.t = "num"
    /\ 0 <= v.confidence.n /\ v.confidence.n <= 100

C2_VerdictWellFormed ==
    Hosted =>
       /\ AfterReturn => WellFormed(verdict)
       /\ \A c \in ClaimIds : files[c].st = "full" => WellFormed(files[c].d)

\* C3: whatever the outcome of call_claude_with_retry, the claim_id of the
\* verdict it returns is the claim_id of the evidence record.
C3_ClaimIdPreserved ==
    (Hosted /\ AfterReturn) => verdict.claim_id = claim_data.claim_id

C3_Witness ==
    /\ Hosted
    /\ pc = "returned"
    /\ claim_data.claim_id = Str(<<"1">>)
    /\ lastOutcome = PlainReply([GoodDict EXCEPT !.claim_id = Str(<<"9">>)])
    /\ verdict.claim_id = Str(<<"1">>)
    /\ verdict.verdict = Str(s_supported)

\* C4: no backend outcome aborts the hosted resolver run: a run that no crash
\* interrupts never ends in an unhandled exception.
C4_NoBackendOutcomeAborts ==
    (Hosted /\ runs = 1) =>
        pc \notin {"aborted_stats", "aborted_progress", "aborted_summary"}

\* C5: when every attempt for a claim fails with a transient error,
\* call_claude_with_retry returns the error verdict (undetermined, confidence
\* 0.0, empty span lists) and its reasoning mentions "retries".
Transient(out) ==
    \/ out.o \in {"RateLimitError", "APIConnectionError"}
    \/ out.o = "APIError" /\ out.hasStatus /\ out.status \in 500..599

C5_ExhaustedRetries ==
    (Hosted /\ AfterReturn /\ Transient(lastOutcome)) =>
        /\ ncalls = 5
        /\ verdict.claim_id = claim_data.claim_id
        /\ verdict.verdict = Str(s_undetermined)
        /\ verdict.confidence = Num(0)
        /\ verdict.supporting_spans = EmptyList
        /\ verdict.contradicting_spans = EmptyList
        /\ verdict.reasoning.t = "str"
        /\ Contains(s_retries, verdict.reasoning.s)

C5_Witness ==
    /\ Hosted
    /\ pc = "save"
    /\ ncalls = 5
    /\ lastOutcome = Raises("APIError", TRUE, 599, e_Status)
    /\ Contains(s_retries, verdict.reasoning.s)
    /\ verdict.verdict = Str(s_undetermined)

\* C6: the hosted resolver dispatches at most MAX_RETRIES (5) backend calls
\* for one claim; after a transient failure on an attempt before the last
\* the loop goes on and its next step is another call; a reply that parses
\* ends the loop, and the verdict returned is the one of that reply.
C6_BoundedRetry ==
    /\ [](Hosted => ncalls <= 5)
    /\ []((Hosted /\ Transient(lastOutcome) /\ ncalls < 5) => InLoop)
    /\ [][(Hosted /\ pc = "sleep" /\ attempt < 4 /\ pc' # "crashed")
             => (pc' = "call" /\ attempt' = attempt + 1)]_vars
    /\ [][(Hosted /\ pc = "call" /\ attempt < 5 /\ pc' # "crashed")
             => ncalls' = ncalls + 1]_vars
    /\ [](\A d \in BackendDicts :
            (Hosted /\ lastOutcome = PlainReply(d)) =>
                /\ ~InLoop
                /\ AfterReturn =>
                     \A k \in VerdictKeys \ {"claim_id"} : verdict[k] = d[k])

C6_Witness ==
    /\ Hosted
    /\ pc = "returned"
    /\ ncalls = 3
    /\ attempt = 2
    /\ lastOutcome = PlainReply(GoodDict)
    /\ verdict.verdict = Str(s_supported)
    /\ verdict.confidence = Num(90)

\* C7: a reply text that is not valid JSON ends the attempt loop with no
\* further backend call and yields the error verdict (undetermined,
\* confidence 0.0) whose reasoning contains "parse".
NotJsonTexts ==
    {<<JunkLine>>, <<FenceLine, JunkLine, FenceLine>>, <<>>,
     <<JsonLine(Dict(GoodDict)), JunkLine>>,
     <<JunkLine, FenceJsonLine, JsonLine(Dict(GoodDict)), FenceLine>>}

C7_ParseFailure ==
    (Hosted /\ \E t \in NotJsonTexts : lastOutcome = Response(<<t>>)) =>
        /\ ~InLoop
        /\ AfterReturn =>
             /\ ncalls = attempt + 1
             /\ verdict.verdict = Str(s_undetermined)
             /\ verdict.confidence = Num(0)
             /\ verdict.reasoning.t = "str"
             /\ Contains(s_parse, verdict.reasoning.s)

C7_Witness ==
    /\ Hosted
    /\ pc = "returned"
    /\ attempt = 0
    /\ ncalls = 1
    /\ lastOutcome = Response(<< <<JunkLine>> >>)
    /\ Contains(s_parse, verdict.reasoning.s)

\* C8: a non-transient failure of a backend call (an API error whose status
\* is not in 500..599, or another exception) ends the attempt loop at once
\* and yields the error verdict: undetermined, confidence 0.0, empty span
\* lists, the diagnostic message as reasoning.
NonTransient(out) ==
    \/ out.o = "Exception"
    \/ out.o = "APIError" /\ ~(out.hasStatus /\ out.status \in 500..599)

C8_NonTransientFailure ==
    (Hosted /\ NonTransient(lastOutcome)) =>
        /\ ~InLoop
        /\ AfterReturn =>
             /\ ncalls = attempt + 1
             /\ verdict =
                  [claim_id |-> claim_data.claim_id,
                   verdict |-> Str(s_undetermined),
                   confidence |-> Num(0),
                   supporting_spans |-> EmptyList,
                   contradicting_spans |-> EmptyList,
                   reasoning |->
                     Str((IF lastOutcome.o = "APIError"
                          THEN MSG_API ELSE MSG_UNEXPECTED)
                         \o lastOutcome.msg)]

C8_Witness ==
    /\ Hosted
    /\ pc = "returned"
    /\ attempt = 1
    /\ ncalls = 2
    /\ lastOutcome = Raises("APIError", TRUE, 400, e_Status)
    /\ verdict.reasoning = Str(MSG_API \o e_Status)

\* C9 as stated: after a crash and a restart the backend is never called
\* again for a claim that the backend already answered in an earlier run.
C9_NoCallAfterAnswer == completedEarlier \cap called = {}

\* C9 as amended: after a crash and a restart the backend is never called
\* again for a claim whose verdict file an earlier run created.
C9_NoCallAfterPersist == persistedEarlier \cap called = {}

C9_Witness ==
    /\ runs = 2
    /\ persistedEarlier = {"1"}
    /\ completedEarlier = {"1", "2"}
    /\ called = {"2"}
    /\ pc = "done"

\* C10: every backoff wait after a transient failure is followed by another
\* backend call; the resolver never waits and then gives up without calling.
C10_WaitThenCall ==
    [][(Hosted /\ pc = "sleep" /\ pc' = "call") => attempt' < 5]_vars

\* the reply of the local backend holding the JSON object d
PlainHttp(d) == Http(200, << <<JsonLine(Dict(d))>> >>)

\* the JSON objects of the backend that name a verdict and leave out one or
\* more of supporting_spans, contradicting_spans, confidence, reasoning
Omitting ==
    {d \in BackendDicts :
        /\ d.verdict \in VerdictEnum
        /\ \E k \in {"supporting_spans", "contradicting_spans", "confidence",
                     "reasoning"} : d[k] = Absent}

\* C11: when the reply parses to an object that leaves out supporting_spans,
\* contradicting_spans, confidence or reasoning, the verdict the resolver
\* returns (hosted and local alike) holds all six keys, the omitted ones
\* filled with defaults.
C11_OmittedFieldsBackfilled ==
    (AfterReturn /\ \E d \in Omitting : lastOutcome \in {PlainReply(d),
                                                         PlainHttp(d)}) =>
        \A k \in VerdictKeys : verdict[k] # Absent

\* C12: a JSON verdict object between an opening ``` or ```json line and a
\* closing ``` line resolves to the verdict the same JSON resolves to without
\* the fence.
FencedReplies(p) ==
    {Response(<< <<open, JsonLine(p), FenceLine>> >>) :
        open \in {FenceLine, FenceJsonLine}}

C12_FenceIgnored ==
    \A p \in BackendJson :
        (Hosted /\ AfterReturn /\ lastOutcome \in FencedReplies(p)) =>
            verdict = HandleResponse(claim_data.claim_id,
                                     Response(<< <<JsonLine(p)>> >>))

C12_Witness ==
    /\ Hosted
    /\ pc = "returned"
    /\ lastOutcome = Response(<< <<FenceJsonLine, JsonLine(Dict(GoodDict)),
                                   FenceLine>> >>)
    /\ verdict = [GoodDict EXCEPT !.claim_id = claim_data.claim_id]
    /\ claim_data.claim_id = Str(<<"2">>)

\* C13: call_ollama treats a refused connection and a 5xx status as
\* transient: the request is sent again, up to a fixed number of attempts,
\* before the claim degrades to an error verdict.
LocalTransient(out) ==
    \/ out.o = "ConnectionError"
    \/ out.o = "http" /\ out.status \in 500..599

C13_LocalRetries ==
    (backend = "local" /\ AfterReturn /\ LocalTransient(lastOutcome)) =>
        ncalls > 1

\* C14: an evidence record that lacks a required field is rejected before a
\* backend call is dispatched for it, and the rejection degrades that claim
\* only: the run does not abort.
C14_RejectedBeforeDispatch ==
    /\ \A c \in ClaimIds :
           lacks[c] \cap RequiredEvidenceFields # {} => c \notin called
    /\ pc # "aborted_prompt"

\* C15: for a non-empty text and 0 <= overlap < window, the ranges
\* [char_start, char_end) of the segments chunk_text returns cover every
\* character position from 0 to the length of the text.
C15_RangesCoverText ==
    (cpc = "done" /\ Text # <<>>) =>
        \A q \in 0..(Len(Text) - 1) :
            \E k \in 1..Len(chunks) :
                chunks[k].char_start <= q /\ q < chunks[k].char_end

\* C16: the char_start of every segment is the length of the decoded tokens
\* that precede its first token, so that text[char_start:char_end] is the
\* text of the segment.
C16_OffsetsAreDecodedPrefix ==
    \A k \in 1..Len(chunks) :
        /\ chunks[k].char_start = Len(Decode(Slice(tokens, 0, tstarts[k])))
        /\ Slice(Text, chunks[k].char_start, chunks[k].char_end)
             = chunks[k].text

\* C17: the k-th segment has chunk_idx k, starts at token k*(window-overlap)
\* and holds min(window, n-start) tokens; the last segment is the first whose
\* end reaches token n, and an empty text gives no segment.
C17_TokenWindows ==
    LET n == Len(tokens)
        end_of(k) == tstarts[k] + chunks[k].token_count
    IN  /\ Len(tstarts) = Len(chunks)
        /\ \A k \in 1..Len(chunks) :
              /\ chunks[k].chunk_idx = k - 1
              /\ tstarts[k] = (k - 1) * (chunk_size - overlap)
              /\ chunks[k].token_count = Min(chunk_size, n - tstarts[k])
              /\ chunks[k].text
                   = Decode(Slice(tokens, tstarts[k], end_of(k)))
              /\ k < Len(chunks) => end_of(k) < n
        /\ (cpc = "loop" /\ chunks # <<>>) => end_of(Len(chunks)) < n
        /\ (cpc = "done" /\ n > 0) =>
              chunks # <<>> /\ end_of(Len(chunks)) = n
        /\ n = 0 => chunks = <<>>

C17_Witness ==
    /\ cpc = "done"
    /\ Len(tokens) = 4
    /\ chunk_size = 2
    /\ overlap = 1
    /\ Len(chunks) = 3
    /\ tstarts = <<0, 1, 2>>
    /\ chunks[3].token_count = 2

\* C18: a non-empty text of at most window tokens gives exactly one segment,
\* with chunk_idx 0, char_start 0, char_end the length of the text and the
\* whole text as its text.
C18_ShortTextOneSegment ==
    (cpc = "done" /\ 0 < Len(tokens) /\ Len(tokens) <= chunk_size) =>
        /\ Len(chunks) = 1
        /\ chunks[1].chunk_idx = 0
        /\ chunks[1].char_start = 0
        /\ chunks[1].char_end = Len(Text)
        /\ chunks[1].text = Text

C18_Witness ==
    /\ cpc = "done"
    /\ tokens = << <<"a", "b">>, <<"a">> >>
    /\ chunk_size = 2
    /\ overlap = 1
    /\ Len(chunks) = 1
    /\ chunks[1].char_end = 3
    /\ chunks[1].text = <<"a", "b", "a">>

\* the pairs of the search that name a vector
ValidHits == {h \in 1..Len(hits) : hits[h].idx # 0 - 1}
\* the adjusted score of the vector of hit h
Adjusted(h) == Candidate(hits[h], metadata, book_name).score
\* the vector of hit h is among the results
InResults(h) == \E k \in 1..Len(results) : results[k].chunk_idx = hits[h].idx
\* its place there
Place(h) == CHOOSE k \in 1..Len(results) : results[k].chunk_idx = hits[h].idx

\* C19: retrieve_evidence returns at most FINAL_K (3) items in order of
\* non-increasing adjusted score, every returned item scores at least as
\* high as every searched candidate that is not returned, and the sentinel
\* idx -1 of the search is never among the results.
C19_TopFinalK ==
    rpc = "done" =>
        /\ Len(results) <= 3
        /\ Len(results) <= FINAL_K
        /\ \A k \in 1..(Len(results) - 1) :
              results[k].score >= results[k + 1].score
        /\ \A k \in 1..Len(results) :
              \E h \in ValidHits :
                  /\ results[k].chunk_idx = hits[h].idx
                  /\ results[k].score = Adjusted(h)
        /\ \A j, k \in 1..Len(results) :
              j # k => results[j].chunk_idx # results[k].chunk_idx
        /\ \A h \in ValidHits :
              ~InResults(h) =>
                  \A k \in 1..Len(results) : results[k].score >= Adjusted(h)

C19_Witness ==
    /\ rpc = "done"
    /\ Len(metadata) = 4
    /\ Len(results) = 3
    /\ results[1].is_same_book /\ results[1].score = 80
    /\ ~results[2].is_same_book /\ results[2].score = 70
    /\ \E h \in ValidHits : ~InResults(h) /\ Adjusted(h) = 70

\* C20: of two candidates with the same raw score of which exactly one is of
\* the claim's book (one normalised book name contains the other), the one of
\* the claim's book is ranked before the other.
C20_SameBookFirst ==
    rpc \in {"sorted", "done"} =>
        \A g, h \in ValidHits :
            ( /\ hits[g].score = hits[h].score
              /\ IsSameBook(book_name, metadata[hits[g].idx + 1].book)
              /\ ~IsSameBook(book_name, metadata[hits[h].idx + 1].book)
              /\ InResults(h) )
            => InResults(g) /\ Place(g) < Place(h)

C20_Witness ==
    /\ rpc = "sorted"
    /\ book_name = <<"A", "B", " ", "c">>
    /\ Len(results) = 2
    /\ hits[1].score = 60 /\ hits[2].score = 60
    /\ hits[1].idx = 0 /\ metadata[1].book = <<"x", " ", "y">>
    /\ hits[2].idx = 1 /\ metadata[2].book = <<"a", "_", "B">>
    /\ results[1].chunk_idx = 1 /\ results[1].score = 80
    /\ results[2].chunk_idx = 0 /\ results[2].score = 60

\* the raw score the search reported for the k-th result
RawOf(k) ==
    hits[CHOOSE h \in ValidHits : hits[h].idx = results[k].chunk_idx].score

\* C21: results with the same boosted score are ordered by their pre-boost
\* score, higher first, and when that is equal too, by their insertion order
\* in the index.
C21_TieBreak ==
    rpc \in {"sorted", "done"} =>
        \A j, k \in 1..Len(results) :
            (j < k /\ results[j].score = results[k].score) =>
                \/ RawOf(j) > RawOf(k)
                \/ /\ RawOf(j) = RawOf(k)
                   /\ results[j].chunk_idx < results[k].chunk_idx

\* the index and the metadata do not belong together
Mismatched ==
    \/ (faissIndex = NoFile) # (metaPkl = NoFile)
    \/ faissIndex # NoFile /\ metaPkl # NoFile /\ faissIndex # metaPkl

\* C22: when the index is there without its metadata (or the reverse) or
\* their sizes differ, the retrieval stage fails before it retrieves evidence
\* for any claim, and writes no evidence bundle.
C22_IntegrityFailFast ==
    Mismatched => evidenceWritten = 0

\* C23: the prediction of every report row is 1 when its verdict is
\* supported and 0 when it is contradicted, undetermined or any other string.
C23_PredictionOfVerdict ==
    \A k \in 1..Len(report) :
        report[k].prediction
          = (IF report[k].verdict = Str(s_supported) THEN 1 ELSE 0)

C23_Witness ==
    /\ apc = "done"
    /\ Len(report) = 2
    /\ \E j, k \in 1..2 :
          /\ report[j].verdict = Str(s_contradicted) /\ report[j].prediction = 0
          /\ report[k].verdict = Str(s_maybe) /\ report[k].prediction = 0

\* C24: the report has one row for every verdict file and every verdict file
\* has exactly one row; a verdict whose claim_id has no claim record has its
\* row too, with empty book_name and character.
C24_OneRowPerVerdict ==
    reportWritten =>
        /\ Len(report) = Len(verdict_files)
        /\ \A f \in 1..Len(verdict_files) :
              Cardinality({k \in 1..Len(report) :
                             report[k].id = verdict_files[f].claim_id}) = 1
        /\ \A k \in 1..Len(report) :
              report[k].id \notin claimStore =>
                  report[k].book_name = <<>> /\ report[k].character = <<>>

C24_Witness ==
    /\ apc = "done"
    /\ reportWritten
    /\ claimStore = {<<"1">>, <<"1", "0">>}
    /\ Len(report) = 2
    /\ report[1].id = <<"1">> /\ report[1].book_name = s_Book
    /\ report[2].id = <<"a">> /\ report[2].book_name = <<>>
    /\ report[2].character = <<>>

\* C25: the rows are ordered by int(id) when every id is an integer and by id
\* otherwise, and the order depends on the set of verdicts only: another
\* listing of the same verdict files gives the same report, also when two ids
\* such as "1" and "01" are the same integer.
C25_OrderIndependentOfListing ==
    reportWritten =>
        /\ \A j, k \in 1..Len(report) :
              j < k =>
                  IF \A r \in 1..Len(report) : IsInt(report[r].id)
                  THEN IntOf(report[j].id) <= IntOf(report[k].id)
                  ELSE StrLess(report[j].id, report[k].id)
        /\ altReport = report

\* the stage script ran and ended with exit status 0
ExitedZero(outcome) ==
    outcome \in {"finished", "stopped_on_missing_input"}

\* the names of the stages the command line selects, in pipeline order
SelectedStages ==
    LET first == IF startFrom = <<>>
                 THEN 1
                 ELSE CHOOSE k \in 1..7 : Lower(STAGES[k].name) = startFrom
    IN  SelectSeq([k \in 1..(8 - first) |-> STAGES[first + k - 1].name],
                  LAMBDA nm : ~(skipReasoning /\ nm = s_Reasoning))

\* C26: run_all starts the stages in the order Ingestion, Embedding, Claims,
\* Retrieval, Reasoning, Dossiers, Results, from the --start-from stage on and
\* without Reasoning under --skip-reasoning; a stage is started only after
\* every earlier selected stage returned success, and after the first stage
\* that fails no stage is started and run_all exits with status 1.
C26_StageOrder ==
    /\ Len(started) <= Len(SelectedStages)
    /\ \A k \in 1..Len(started) : started[k].name = SelectedStages[k]
    /\ \A k \in 1..(Len(started) - 1) : ExitedZero(started[k].outcome)
    /\ (started # <<>> /\ ~ExitedZero(started[Len(started)].outcome)) =>
          opc = "exited" /\ exitStatus = 1 /\ ~complete
    /\ exitStatus = 1 =>
          started # <<>> /\ ~ExitedZero(started[Len(started)].outcome)
    /\ complete => Len(started) = Len(SelectedStages)

C26_Witness ==
    /\ startFrom = <<"c", "l", "a", "i", "m", "s">>
    /\ skipReasoning
    /\ Len(started) = 3
    /\ started[1].name = <<"C", "l", "a", "i", "m", "s">> /\ started[1].outcome = "finished"
    /\ started[2].name = <<"R", "e", "t", "r", "i", "e", "v", "a", "l">> /\ started[2].outcome = "finished"
    /\ started[3].name = <<"D", "o", "s", "s", "i", "e", "r", "s">> /\ started[3].outcome = "exit_nonzero"
    /\ opc = "exited"
    /\ exitStatus = 1

\* C27: run_all prints PIPELINE COMPLETE only if no stage it ran stopped for
\* a missing input: such a stage counts as failed and no later stage starts.
C27_NoCompleteAfterAbort ==
    /\ complete =>
          \A k \in 1..Len(started) :
              started[k].outcome # "stopped_on_missing_input"
    /\ \A k \in 1..(Len(started) - 1) :
          started[k].outcome # "stopped_on_missing_input"

\* C28: every verdict file a restarted resolver takes for processed, and
\* skips, holds a complete verdict record, wherever the run before crashed.
C28_SkippedFilesComplete ==
    \A c \in processed : files[c].st = "full"

\* C29: an upload request answered with an error (no file, empty file name,
\* extension not allowed, file too large, extraction failure, no text) leaves
\* the pipeline artifacts (chunks, index, claims, evidence, verdicts,
\* dossiers, output/results.csv) as they were.
C29_ErrorLeavesArtifacts ==
    (upc = "responded" /\ response = 400) => artifacts = artifactsBefore

\* C30: with chunk_size >= 1 and 0 <= overlap < chunk_size chunk_text
\* terminates: every iteration moves token_idx forward by
\* chunk_size - overlap > 0, a text of n > 0 tokens gives at most
\* ceil(n / (chunk_size - overlap)) segments, and the call returns.
C30_Terminates ==
    /\ [](LET n == Len(tokens)
              step == chunk_size - overlap
          IN  /\ step > 0
              /\ token_idx = Len(chunks) * step
              /\ n > 0 => Len(chunks) <= (n + step - 1) \div step)
    /\ <>(cpc = "done")

C30_Witness ==
    /\ cpc = "done"
    /\ Len(tokens) = 4
    /\ chunk_size = 3
    /\ overlap = 1
    /\ Len(chunks) = 2
    /\ token_idx = 4
====
